---------------------------- MODULE Spec2Model ----------------------------
(***************************************************************************)
(* A model of the redis client of src/src/redis_client.rs: endpoint        *)
(* parsing (get_connection_info), construction (RedisClient::new), the      *)
(* lazily initialised connection cell (RedisClient::connect, a tokio        *)
(* OnceCell) and the four store operations get/set/delete/append.           *)
(*                                                                         *)
(* Strings that the code parses or splits (endpoints, address lists) are    *)
(* sequences of one-character strings, so that splitting and URI parsing    *)
(* are computed.  Static strings of the code (messages, context keys,       *)
(* driver categories) are TLA+ strings.                                     *)
(***************************************************************************)
EXTENDS Integers, Sequences, FiniteSets, TLC

(***************************************************************************)
(* Option<T> and Result<T, E>                                               *)
(***************************************************************************)
None == [some |-> FALSE]
Some(x) == [some |-> TRUE, val |-> x]

Ok(x) == [ok |-> TRUE, val |-> x]
Err(e) == [ok |-> FALSE, err |-> e]

(***************************************************************************)
(* Character strings                                                        *)
(***************************************************************************)
Digits == <<"0", "1", "2", "3", "4", "5", "6", "7", "8", "9">>

IsDigit(ch) == \E i \in 1..10 : Digits[i] = ch

DigitVal(ch) == (CHOOSE i \in 1..10 : Digits[i] = ch) - 1

Letters == {"a", "b", "c", "d", "e", "f", "h", "i", "n", "p", "r", "s",
            "t", "u", "x"}

\* http::uri SCHEME_CHARS: ALPHA / DIGIT / "+" / "-" / "."
IsSchemeChar(ch) == ch \in Letters \/ IsDigit(ch) \/ ch \in {"+", "-", "."}

\* http::uri URI_CHARS restricted to the alphabet of the model: the blank is
\* the one character of the alphabet that no URI may hold.
IsUriChar(ch) == ch # " "

\* s[from..to], empty when from > to
Slice(s, from, to) == SubSeq(s, from, to)

\* position of the first occurrence of ch in s at or after from, 0 if none
RECURSIVE FindFrom(_, _, _)
FindFrom(s, ch, from) ==
    IF from > Len(s) THEN 0
    ELSE IF s[from] = ch THEN from
    ELSE FindFrom(s, ch, from + 1)

\* position of the last occurrence of ch in s, 0 if none (str::rfind)
RECURSIVE RFind(_, _, _)
RFind(s, ch, upto) ==
    IF upto < 1 THEN 0
    ELSE IF s[upto] = ch THEN upto
    ELSE RFind(s, ch, upto - 1)

\* str::split(","): the pieces between commas, empty pieces included; a
\* string without comma (the empty string too) gives one piece.
RECURSIVE Split(_)
Split(s) ==
    LET i == FindFrom(s, ",", 1)
    IN  IF i = 0 THEN <<s>>
        ELSE <<Slice(s, 1, i - 1)>> \o Split(Slice(s, i + 1, Len(s)))


(***************************************************************************)
(* http::Uri, as far as endpoint.parse::<Uri>() and the accessors           *)
(* scheme_str, host, port_u16 and path decide get_connection_info.          *)
(***************************************************************************)

\* Scheme2::parse: the length of the scheme in front of "://", or -1 when
\* the string holds no scheme.  ("http://" and "https://" are recognised by
\* the same scan and give the scheme strings "http" and "https".)
RECURSIVE SchemeScan(_, _)
SchemeScan(s, p) ==
    IF p > Len(s) THEN -1
    ELSE IF s[p] = ":"
         THEN IF Len(s) < p + 2 THEN -1
              ELSE IF s[p + 1] = "/" /\ s[p + 2] = "/" THEN p - 1
              ELSE -1
    ELSE IF IsSchemeChar(s[p]) THEN SchemeScan(s, p + 1)
    ELSE -1

SchemeLen(s) == IF Len(s) > 3 THEN SchemeScan(s, 1) ELSE -1

\* Authority::parse: the end of the authority (the characters before the
\* first "/"), or -1 for an invalid authority: a character no URI may hold
\* in it, or more than one colon.
AuthorityStop(s) ==
    LET slash == FindFrom(s, "/", 1)
    IN  IF slash = 0 THEN Len(s) ELSE slash - 1

AuthorityChecked(s, end) ==
    IF \E i \in 1..end : ~IsUriChar(s[i]) THEN -1
    ELSE IF Cardinality({i \in 1..end : s[i] = ":"}) > 1 THEN -1
    ELSE end

AuthorityEnd(s) == AuthorityChecked(s, AuthorityStop(s))

\* PathAndQuery::from_shared accepts the bytes of a path
ValidPath(s) == \A i \in 1..Len(s) : IsUriChar(s[i])

MkUri(scheme, authority, path) ==
    [scheme |-> scheme, authority |-> authority, path_and_query |-> path]

\* parse_full, with the length n of the scheme (-1: none), what follows the
\* scheme, and the end of the authority in it
ParseAuthority(s, n, rest, end) ==
    IF end < 0 THEN Err("invalid authority")
    ELSE IF n < 0
         THEN IF end # Len(rest) THEN Err("invalid format")
              ELSE Ok(MkUri(None, rest, <<>>))
    ELSE IF end = 0 THEN Err("invalid format")
    ELSE IF ~ValidPath(Slice(rest, end + 1, Len(rest)))
         THEN Err("invalid uri character")
    ELSE Ok(MkUri(Some(Slice(s, 1, n)), Slice(rest, 1, end),
                  Slice(rest, end + 1, Len(rest))))

ParseRest(s, n, rest) == ParseAuthority(s, n, rest, AuthorityEnd(rest))

ParseFull(s, n) ==
    ParseRest(s, n, IF n < 0 THEN s ELSE Slice(s, n + 4, Len(s)))

\* Uri::from_shared
ParseUri(s) ==
    IF Len(s) = 0 THEN Err("empty string")
    ELSE IF Len(s) = 1 /\ s[1] \in {"/", "*"} THEN Ok(MkUri(None, <<>>, s))
    ELSE IF Len(s) = 1
         THEN IF IsUriChar(s[1]) THEN Ok(MkUri(None, s, <<>>))
              ELSE Err("invalid uri character")
    ELSE IF s[1] = "/"
         THEN IF ValidPath(s) THEN Ok(MkUri(None, <<>>, s))
              ELSE Err("invalid uri character")
    ELSE ParseFull(s, SchemeLen(s))

\* Uri::scheme_str
scheme_str(uri) == uri.scheme

\* Uri::host: the authority up to its first colon, None without authority
host(uri) ==
    IF Len(uri.authority) = 0 THEN None
    ELSE LET c == FindFrom(uri.authority, ":", 1)
         IN  Some(IF c = 0 THEN uri.authority
                  ELSE Slice(uri.authority, 1, c - 1))

U16Max == 65535

\* str::parse::<u16>: an optional "+", then digits, at most 65535
RECURSIVE DecimalValue(_, _)
DecimalValue(s, acc) ==
    IF Len(s) = 0 THEN acc
    ELSE IF ~IsDigit(s[1]) THEN -1
    ELSE LET v == acc * 10 + DigitVal(s[1])
         IN  IF v > U16Max THEN -1 ELSE DecimalValue(Tail(s), v)

U16Of(v) == IF v < 0 THEN None ELSE Some(v)

ParseDigits(digits) ==
    IF Len(digits) = 0 THEN None ELSE U16Of(DecimalValue(digits, 0))

ParseU16(s) ==
    ParseDigits(IF Len(s) > 0 /\ s[1] = "+" THEN Tail(s) ELSE s)

\* Uri::port_u16: what follows the last colon of the authority, when it
\* parses as a u16
port_u16(uri) ==
    LET c == RFind(uri.authority, ":", Len(uri.authority))
    IN  IF c = 0 THEN None
        ELSE ParseU16(Slice(uri.authority, c + 1, Len(uri.authority)))

\* Uri::path: "/" for an absolute URI without path, "" for a bare authority
path(uri) ==
    IF Len(uri.path_and_query) > 0 THEN uri.path_and_query
    ELSE IF uri.scheme.some THEN <<"/">>
    ELSE <<>>

(***************************************************************************)
(* Errors (src/src/error.rs)                                                *)
(***************************************************************************)

\* Error::new
Error_new(kind, message) ==
    [kind |-> kind, message |-> message, context |-> <<>>, source |-> None]

\* Error::with_context
with_context(e, key, value) ==
    [e EXCEPT !.context = Append(e.context, <<key, value>>)]

\* Error::set_source
set_source(e, src) == [e EXCEPT !.source = Some(src)]

\* The driver's RedisError and RedisError::category
RedisError(kind) == [type |-> "RedisError", kind |-> kind]

category(e) ==
    CASE e.kind = "IoError"             -> "I/O error"
      [] e.kind = "ResponseError"       -> "response error"
      [] e.kind = "AuthenticationFailed" -> "authentication failed"
      [] e.kind = "InvalidClientConfig" -> "invalid client config"
      [] e.kind = "ClusterDown"         -> "cluster down"

\* A mutant of format_redis_error: the driver's error is reported as a
\* configuration error.
format_redis_error_as_config(e) ==
    set_source(Error_new("ConfigInvalid", category(e)), e)

format_redis_error(e) ==
    set_source(Error_new("Unexpected", category(e)), e)

(***************************************************************************)
(* Endpoint parsing (get_connection_info)                                   *)
(***************************************************************************)
S_tcp        == <<"t", "c", "p">>
S_redis      == <<"r", "e", "d", "i", "s">>
S_rediss     == <<"r", "e", "d", "i", "s", "s">>
S_unix       == <<"u", "n", "i", "x">>
S_redis_unix == <<"r", "e", "d", "i", "s", "+", "u", "n", "i", "x">>
S_localhost  == <<"1", "2", "7", ".", "0", ".", "0", ".", "1">>

DEFAULT_REDIS_PORT == 6379

DEFAULT_REDIS_ENDPOINT ==
    S_tcp \o <<":", "/", "/">> \o S_localhost \o <<":", "6", "3", "7", "9">>

unwrap_or(opt, default) == IF opt.some THEN opt.val ELSE default

\* host and port of the tcp and rediss arms, with their defaults
tcp_host(ep_url) == unwrap_or(host(ep_url), S_localhost)

tcp_port(ep_url) == unwrap_or(port_u16(ep_url), DEFAULT_REDIS_PORT)

\* The match on ep_url.scheme_str(): the address of the connection, or the
\* error of an unsupported scheme.
con_addr(ep_url) ==
    CASE ~scheme_str(ep_url).some ->
            Ok([type |-> "Tcp", host |-> tcp_host(ep_url),
                port |-> tcp_port(ep_url)])
      [] scheme_str(ep_url).some /\ scheme_str(ep_url).val \in {S_tcp, S_redis} ->
            Ok([type |-> "Tcp", host |-> tcp_host(ep_url),
                port |-> tcp_port(ep_url)])
      [] scheme_str(ep_url).some /\ scheme_str(ep_url).val = S_rediss ->
            Ok([type |-> "TcpTls", host |-> tcp_host(ep_url),
                port |-> tcp_port(ep_url), insecure |-> FALSE,
                tls_params |-> None])
      [] scheme_str(ep_url).some
           /\ scheme_str(ep_url).val \in {S_unix, S_redis_unix} ->
            Ok([type |-> "Unix", path |-> path(ep_url)])
      [] OTHER ->
            Err(Error_new("ConfigInvalid", "invalid or unsupported scheme"))

\* The descriptor: the address with db, username and password of the settings
connection_info(addr, settings) ==
    IF ~addr.ok THEN addr
    ELSE Ok([addr  |-> addr.val,
             redis |-> [db       |-> settings.db,
                        username |-> settings.username,
                        password |-> settings.password]])

\* get_connection_info after endpoint.parse::<Uri>()
info_of_uri(ep_url, endpoint, settings) ==
    IF ~ep_url.ok
    THEN Err(set_source(
               with_context(Error_new("ConfigInvalid", "endpoint is invalid"),
                            "endpoint", endpoint),
               [type |-> "InvalidUri", kind |-> ep_url.err]))
    ELSE connection_info(con_addr(ep_url.val), settings)

get_connection_info(endpoint, settings) ==
    info_of_uri(ParseUri(endpoint), endpoint, settings)

(***************************************************************************)
(* Construction (RedisClient::new)                                          *)
(***************************************************************************)

\* i64::to_string of the db index
RECURSIVE NatToString(_)
NatToString(n) ==
    IF n < 10 THEN <<Digits[n + 1]>>
    ELSE NatToString(n \div 10) \o <<Digits[(n % 10) + 1]>>

to_string(n) == IF n < 0 THEN <<"-">> \o NatToString(-n) ELSE NatToString(n)

\* redis::Client::open on a ConnectionInfo: the driver keeps the descriptor
\* as it is, and accepts every descriptor.
Client_open(info) == Ok([connection_info |-> info])

\* ClusterClientBuilder::new(nodes) with .username / .password when set, then
\* .build(): the driver rejects a unix socket among the initial nodes, and
\* initial nodes whose credentials differ from the first node's when the
\* builder was given none.
ClusterClientBuilder_build(nodes, username, password) ==
    LET first == nodes[1]
        pw    == IF password.some THEN None ELSE first.redis.password
        un    == IF username.some THEN None ELSE first.redis.username
    IN  IF \E i \in 1..Len(nodes) :
              \/ nodes[i].addr.type = "Unix"
              \/ pw.some /\ nodes[i].redis.password # pw
              \/ un.some /\ nodes[i].redis.username # un
        THEN Err(RedisError("InvalidClientConfig"))
        ELSE Ok([initial_nodes |-> nodes,
                 username |-> IF username.some THEN username
                              ELSE first.redis.username,
                 password |-> IF password.some THEN password
                              ELSE first.redis.password])

\* A mutant of OnceCell::new: the cell is made with a connection in it, as
\* OnceCell::new_with(Some(..)) makes it.
OnceCell_new_with_value ==
    [value_set |-> TRUE,
     value |-> Some([variant |-> "Single", id |-> 0]),
     permit |-> "closed", holder |-> 0, waiters |-> <<>>]

\* OnceCell::new: no value, the one permit of the semaphore free (permit is
\* free, held by the task holder, or closed for good), no waiter queued
OnceCell_new ==
    [value_set |-> FALSE, value |-> None, permit |-> "free", holder |-> 0,
     waiters |-> <<>>]

\* The loop over addresses.split(","): the descriptors of the pieces, or the
\* error of the first piece that does not parse.
RECURSIVE cluster_addresses(_, _, _)
RECURSIVE push_address(_, _, _, _)
push_address(info, pieces, settings, acc) ==
    IF ~info.ok THEN info
    ELSE cluster_addresses(Tail(pieces), settings, Append(acc, info.val))

cluster_addresses(pieces, settings, acc) ==
    IF Len(pieces) = 0 THEN Ok(acc)
    ELSE push_address(get_connection_info(pieces[1], settings), pieces,
                      settings, acc)

\* A mutant of the cluster branch: the single-node field is filled as well.
cluster_built_with_single(client, addresses) ==
    IF ~client.ok THEN Err(format_redis_error(client.err))
    ELSE Ok([addresses      |-> addresses,
             client         |-> Some([connection_info |->
                                        client.val.initial_nodes[1]]),
             cluster_client |-> Some(client.val),
             conn           |-> OnceCell_new])

\* The cluster branch of RedisClient::new, after client_builder.build()
cluster_built(client, addresses) ==
    IF ~client.ok THEN Err(format_redis_error(client.err))
    ELSE Ok([addresses      |-> addresses,
             client         |-> None,
             cluster_client |-> Some(client.val),
             conn           |-> OnceCell_new])

\* The cluster branch of RedisClient::new, after the loop over the pieces
cluster_of(nodes, addresses, settings) ==
    IF ~nodes.ok THEN nodes
    ELSE cluster_built(
           ClusterClientBuilder_build(nodes.val, settings.username,
                                      settings.password),
           addresses)

\* The cluster branch of RedisClient::new
new_cluster(addresses, settings) ==
    cluster_of(cluster_addresses(Split(addresses), settings, <<>>),
               addresses, settings)

\* A mutant of the single-node branch: the template is not kept.
single_built_without_template(client, address, settings) ==
    IF ~client.ok THEN Err(format_redis_error(client.err))
    ELSE Ok([addresses      |-> address,
             client         |-> None,
             cluster_client |-> None,
             conn           |-> OnceCell_new])

\* The single-node branch of RedisClient::new, after Client::open
single_built(client, address, settings) ==
    IF ~client.ok
    THEN Err(set_source(
           with_context(
             with_context(
               Error_new("ConfigInvalid", "invalid or unsupported scheme"),
               "address", address),
             "db", to_string(settings.db)),
           client.err))
    ELSE Ok([addresses      |-> address,
             client         |-> Some(client.val),
             cluster_client |-> None,
             conn           |-> OnceCell_new])

\* The single-node branch of RedisClient::new, after get_connection_info
single_of(info, address, settings) ==
    IF ~info.ok THEN info
    ELSE single_built(Client_open(info.val), address, settings)

single_at(address, settings) ==
    single_of(get_connection_info(address, settings), address, settings)

\* The single-node branch of RedisClient::new
new_single(settings) ==
    single_at(unwrap_or(settings.address, DEFAULT_REDIS_ENDPOINT), settings)

\* A mutant of RedisClient::new: the address is looked at first, and the
\* address list only when there is no address.
new_address_first(settings) ==
    IF settings.address.some \/ ~settings.addresses.some
    THEN new_single(settings)
    ELSE new_cluster(settings.addresses.val, settings)

\* A mutant of RedisClient::new: an empty address list is taken as no list.
new_empty_list_is_single(settings) ==
    IF settings.addresses.some /\ Len(settings.addresses.val) > 0
    THEN new_cluster(settings.addresses.val, settings)
    ELSE new_single(settings)

\* RedisClient::new
new(settings) ==
    IF settings.addresses.some
    THEN new_cluster(settings.addresses.val, settings)
    ELSE new_single(settings)

(***************************************************************************)
(* The store behind a connection: the commands the client sends             *)
(***************************************************************************)
Keys == {"k1", "k2"}

Absent == [present |-> FALSE, val |-> <<>>, expires |-> FALSE, ttl |-> 0]

EmptyStore == [k \in Keys |-> Absent]

Unit == [unit |-> TRUE]

\* The reply of the driver to one command: the new contents of the store and
\* the value or the driver's error.  outcome is "ok" or the kind of the error
\* with which the driver fails the command before the store sees it.
Reply(kv, res) == [kv |-> kv, res |-> res]

\* GET key
cmd_get(kv, key, outcome) ==
    IF outcome # "ok" THEN Reply(kv, Err(RedisError(outcome)))
    ELSE Reply(kv, Ok(IF kv[key].present THEN Some(kv[key].val) ELSE None))

\* SET key value: the value without expiry
cmd_set(kv, key, value, outcome) ==
    IF outcome # "ok" THEN Reply(kv, Err(RedisError(outcome)))
    ELSE Reply([kv EXCEPT ![key] = [present |-> TRUE, val |-> value,
                                     expires |-> FALSE, ttl |-> 0]],
               Ok(Unit))

\* SETEX key seconds value: the store refuses an expiry of zero seconds
cmd_set_ex(kv, key, value, seconds, outcome) ==
    IF outcome # "ok" THEN Reply(kv, Err(RedisError(outcome)))
    ELSE IF seconds = 0 THEN Reply(kv, Err(RedisError("ResponseError")))
    ELSE Reply([kv EXCEPT ![key] = [present |-> TRUE, val |-> value,
                                     expires |-> TRUE, ttl |-> seconds]],
               Ok(Unit))

\* DEL key
cmd_del(kv, key, outcome) ==
    IF outcome # "ok" THEN Reply(kv, Err(RedisError(outcome)))
    ELSE Reply([kv EXCEPT ![key] = Absent], Ok(Unit))

\* APPEND key value: an absent key counts as the empty value; an expiry stays
cmd_append(kv, key, value, outcome) ==
    IF outcome # "ok" THEN Reply(kv, Err(RedisError(outcome)))
    ELSE Reply([kv EXCEPT ![key] = [@ EXCEPT !.present = TRUE,
                                              !.val = @ \o value]],
               Ok(Unit))

\* Duration::as_secs of a duration given in milliseconds
MillisPerSec == 1000

as_secs(ttl) == ttl \div MillisPerSec

\* map_err(format_redis_error) on the reply of a command
map_err(reply) ==
    IF reply.res.ok THEN reply
    ELSE Reply(reply.kv, Err(format_redis_error(reply.res.err)))

(***************************************************************************)
(* The operations on a resolved connection: the part of get, set, delete    *)
(* and append after `let conn = self.connect().await?`                      *)
(***************************************************************************)
get_on(conn, kv, key, outcome) ==
    IF conn.variant = "Single"
    THEN map_err(cmd_get(kv, key, outcome))
    ELSE map_err(cmd_get(kv, key, outcome))

\* A mutant of set: the cluster arm drops the expiry.
set_on_cluster_without_expiry(conn, kv, key, value, ttl, outcome) ==
    IF ttl.some /\ conn.variant = "Single"
    THEN map_err(cmd_set_ex(kv, key, value, as_secs(ttl.val), outcome))
    ELSE map_err(cmd_set(kv, key, value, outcome))

\* A mutant of set: without ttl it appends instead of setting.
set_on_appends_without_ttl(conn, kv, key, value, ttl, outcome) ==
    IF ttl.some
    THEN map_err(cmd_set_ex(kv, key, value, as_secs(ttl.val), outcome))
    ELSE map_err(cmd_append(kv, key, value, outcome))

set_on(conn, kv, key, value, ttl, outcome) ==
    IF ttl.some
    THEN IF conn.variant = "Single"
         THEN map_err(cmd_set_ex(kv, key, value, as_secs(ttl.val), outcome))
         ELSE map_err(cmd_set_ex(kv, key, value, as_secs(ttl.val), outcome))
    ELSE IF conn.variant = "Single"
         THEN map_err(cmd_set(kv, key, value, outcome))
         ELSE map_err(cmd_set(kv, key, value, outcome))

\* A mutant of delete: a key that was not there is reported as an error.
delete_on_absent_is_error(conn, kv, key, outcome) ==
    IF outcome = "ok" /\ ~kv[key].present
    THEN map_err(Reply(kv, Err(RedisError("ResponseError"))))
    ELSE map_err(cmd_del(kv, key, outcome))

delete_on(conn, kv, key, outcome) ==
    IF conn.variant = "Single"
    THEN map_err(cmd_del(kv, key, outcome))
    ELSE map_err(cmd_del(kv, key, outcome))

\* A mutant of append: the value replaces what the key held.
append_on_overwrites(conn, kv, key, value, outcome) ==
    map_err(cmd_set(kv, key, value, outcome))

append_on(conn, kv, key, value, outcome) ==
    IF conn.variant = "Single"
    THEN map_err(cmd_append(kv, key, value, outcome))
    ELSE map_err(cmd_append(kv, key, value, outcome))

\* The operation of a call on a resolved connection
run_on(conn, kv, c, outcome) ==
    CASE c.op = "get"    -> get_on(conn, kv, c.key, outcome)
      [] c.op = "set"    -> set_on(conn, kv, c.key, c.value, c.ttl, outcome)
      [] c.op = "delete" -> delete_on(conn, kv, c.key, outcome)
      [] c.op = "append" -> append_on(conn, kv, c.key, c.value, outcome)

(***************************************************************************)
(* Inputs                                                                   *)
(***************************************************************************)
Sep == <<":", "/", "/">>

SchemeParts ==
    {<<>>, S_tcp \o Sep, S_redis \o Sep, S_rediss \o Sep, S_unix \o Sep,
     S_redis_unix \o Sep, <<"f", "t", "p">> \o Sep}

HostParts == {<<>>, <<"a">>}

PortParts == {<<>>, <<":", "1">>, <<":", "9", "9", "9", "9", "9">>}

PathParts == {<<>>, <<"/", "p">>}

\* The endpoint strings of the model: every combination of the parts, and two
\* strings that hold a blank.
Endpoints ==
    {sc \o h \o po \o pa :
        sc \in SchemeParts, h \in HostParts, po \in PortParts, pa \in PathParts}
    \cup {<<" ">>, <<"a", " ", "b">>}

\* The values of settings.address: every scheme with and without host and
\* port, and a string that is a blank
Addresses ==
    {sc \o h \o po :
        sc \in SchemeParts, h \in HostParts, po \in {<<>>, <<":", "1">>}}
    \cup {<<" ">>}

\* The pieces of the address lists of the model, and the lists: one piece, or
\* two pieces with a comma between them.
ListPieces ==
    {<<>>, <<"a", ":", "1">>, <<"b">>, S_rediss \o Sep \o <<"a">>,
     S_unix \o Sep \o <<"a", "/", "p">>, <<"f", "t", "p">> \o Sep \o <<"a">>}

AddressLists ==
    ListPieces \cup {x \o <<",">> \o y : x \in ListPieces, y \in ListPieces}

OptionOf(S) == {None} \cup {Some(x) : x \in S}

Usernames == {<<"u">>}

Passwords == {<<"p", "1">>, <<"p", "2">>}

DbIndexes == {0, 1}

\* The settings given to RedisClient::new when only construction is looked at
AllSettings ==
    [address   : OptionOf(Addresses),
     addresses : OptionOf(AddressLists),
     username  : OptionOf(Usernames),
     password  : OptionOf(Passwords),
     db        : DbIndexes]

DefaultSettings ==
    [address |-> None, addresses |-> None, username |-> None,
     password |-> None, db |-> 0]

\* The settings of the runs in which the client is used: the default single
\* node, a cluster of two nodes, and an address whose scheme is not supported.
RunSettings ==
    {DefaultSettings,
     [DefaultSettings EXCEPT
        !.addresses = Some(<<"a", ":", "1", ",", "b">>),
        !.password = Some(<<"p", "1">>)],
     [DefaultSettings EXCEPT
        !.address = Some(<<"f", "t", "p">> \o Sep \o <<"a">>)]}

NumTasks == 2
NumClients == 2
MaxCalls == 2

Tasks == 1..NumTasks
Clients == 1..NumClients

Values == {<<1>>, <<2>>}

\* Durations in milliseconds: half a second, one second, two and a half
Durations == {500, 1000, 2500}

\* The outcomes of a connection setup and of a command in the driver: "ok",
\* or the kind of the RedisError
SetupOutcomes == {"ok", "AuthenticationFailed"}
CommandOutcomes == {"ok", "IoError"}

\* The calls on the clients cs with the given keys, values and durations
CallsWith(cs, keys, values, ttls) ==
    [client : cs, op : {"get", "delete"}, key : keys, value : {<<>>},
     ttl : {None}]
    \cup [client : cs, op : {"append"}, key : keys, value : values,
          ttl : {None}]
    \cup [client : cs, op : {"set"}, key : keys, value : values,
          ttl : OptionOf(ttls)]

\* The calls of the concurrent runs: a read and a write of one key, with one
\* value and no expiry
RunCalls ==
    {a \in CallsWith(Clients, {"k1"}, {<<1>>}, {}) : a.op \in {"get", "set"}}

NoCall == [client |-> 0]
NoConn == [variant |-> "none", id |-> 0]
NoResult == [pending |-> TRUE]
NoInstance == [live |-> FALSE]
NoCell ==
    [value_set |-> FALSE, value |-> None, permit |-> "free", holder |-> 0,
     waiters |-> <<>>]

(***************************************************************************)
(* State                                                                    *)
(***************************************************************************)
VARIABLES
    settings,   \* the settings given to RedisClient::new
    built,      \* what RedisClient::new returned, once it has
    instances,  \* per client instance: addresses, client, cluster_client
    conn,       \* per client instance: the OnceCell<RedisConnection>
    pc,         \* per caller: where its call is
    call,       \* per caller: the call in progress
    held,       \* per caller: the connection that connect() returned
    result,     \* per caller: what the call returned
    store,      \* per server: the keys of the store
    calls,      \* the number of calls started
    setups,     \* per client instance: setup attempts started
    completed,  \* per client instance: setup attempts that succeeded
    own,        \* per caller: the setup attempt its call started, 0 if none
    saw         \* per caller: the attempt in flight when it began to wait

vars == <<settings, built, instances, conn, pc, call, held, result, store,
          calls, setups, completed, own, saw>>

Servers == {"single", "cluster"}

\* The server a client instance talks to: the node of its single-node
\* template, or the cluster of its cluster template.
ServerOf(inst) == IF inst.client.some THEN "single" ELSE "cluster"

NotBuilt == [done |-> FALSE]

InitWith(S) ==
    /\ settings \in S
    /\ built = NotBuilt
    /\ instances = [c \in Clients |-> NoInstance]
    /\ conn = [c \in Clients |-> NoCell]
    /\ pc = [t \in Tasks |-> "idle"]
    /\ call = [t \in Tasks |-> NoCall]
    /\ held = [t \in Tasks |-> NoConn]
    /\ result = [t \in Tasks |-> NoResult]
    /\ store = [s \in Servers |-> EmptyStore]
    /\ calls = 0
    /\ setups = [c \in Clients |-> 0]
    /\ completed = [c \in Clients |-> 0]
    /\ own = [t \in Tasks |-> 0]
    /\ saw = [t \in Tasks |-> 0]

Init == InitWith(RunSettings)

(***************************************************************************)
(* The connection cell: tokio::sync::OnceCell as RedisClient::connect and   *)
(* the derived Clone use it                                                 *)
(***************************************************************************)

\* A mutant of OnceCell::clone: the clone is always a new empty cell.
OnceCell_clone_always_empty(cell) == OnceCell_new

\* OnceCell::clone: a cell that holds a clone of the value when there is one,
\* and a new empty cell otherwise
OnceCell_clone(cell) ==
    IF cell.value_set
    THEN [value_set |-> TRUE, value |-> cell.value, permit |-> "closed",
          holder |-> 0, waiters |-> <<>>]
    ELSE OnceCell_new

\* A mutant of set_value: the value is stored and the permit is given back,
\* so that the cell stays open for another initialisation.
set_value_keeps_open(cell, v) ==
    [cell EXCEPT !.value_set = TRUE, !.value = Some(v),
                 !.permit = IF Len(cell.waiters) > 0 THEN "held" ELSE "free",
                 !.holder = IF Len(cell.waiters) > 0 THEN Head(cell.waiters)
                            ELSE 0,
                 !.waiters = IF Len(cell.waiters) > 0 THEN Tail(cell.waiters)
                             ELSE <<>>]

\* OnceCell::set_value: the value is stored, the semaphore is closed (which
\* wakes every waiter) and the permit is forgotten
set_value(cell, v) ==
    [value_set |-> TRUE, value |-> Some(v), permit |-> "closed",
     holder |-> 0, waiters |-> <<>>]

\* A mutant of release_permit: the permit of a failed attempt is never given
\* back.
release_permit_never(cell) == cell

\* The permit is dropped without a value (the closure failed, or the caller
\* that held it was dropped): the first waiter of the queue gets it, and it is
\* free when nobody waits
release_permit(cell) ==
    IF Len(cell.waiters) > 0
    THEN [cell EXCEPT !.holder = Head(cell.waiters),
                      !.waiters = Tail(cell.waiters)]
    ELSE [cell EXCEPT !.permit = "free", !.holder = 0]

\* The branch of the closure of connect: the single-node template when there
\* is one, else the unwrap of the cluster template
init_variant(inst) ==
    IF inst.client.some THEN "Single"
    ELSE IF inst.cluster_client.some THEN "Cluster"
    ELSE "panic"

\* .map_err(format_redis_error)? on the result of get_or_try_init
connect_result(r) ==
    IF r.ok THEN r ELSE Err(format_redis_error(r.err))

\* A mutant of woken: every waiter proceeds as if it had the permit,
\* whether the permit was handed to it or not.
woken_without_permit(u, cell, at) ==
    IF at = "waiting" THEN "acquired" ELSE at

\* A mutant of woken: the waiter that is handed the permit is not woken.
woken_never(u, cell, at) == at

\* Where caller u is after the permit of a cell was released or the cell was
\* set, cell being the cell afterwards and at where u was: the waiter that was
\* handed the permit has to be polled
woken(u, cell, at) ==
    IF u = cell.holder /\ at = "waiting" THEN "acquired" ELSE at

RECURSIVE SumTo(_, _)
SumTo(f, n) == IF n = 0 THEN 0 ELSE f[n] + SumTo(f, n - 1)

\* The serial number of the next setup attempt
NextId == 1 + SumTo(setups, NumClients)

\* A mutant of Without: the dropped waiter stays in the queue.
Without_keeps_waiter(q, t) == q

\* The wait queue of the semaphore without the waiter t, which was dropped
Without(q, t) == SelectSeq(q, LAMBDA x : x # t)

(***************************************************************************)
(* Actions                                                                  *)
(***************************************************************************)

\* The fields of a constructed RedisClient other than its cell
InstanceOf(client) ==
    [live           |-> TRUE,
     addresses      |-> client.addresses,
     client         |-> client.client,
     cluster_client |-> client.cluster_client]

\* let client = RedisClient::new(&settings): res is what new returned
Constructed(res) ==
    /\ built' = [done |-> TRUE, res |-> res]
    /\ IF res.ok
       THEN /\ instances' = [instances EXCEPT ![1] = InstanceOf(res.val)]
            /\ conn' = [conn EXCEPT ![1] = res.val.conn]
       ELSE UNCHANGED <<instances, conn>>

Construct ==
    /\ ~built.done
    /\ Constructed(new(settings))
    /\ UNCHANGED <<settings, pc, call, held, result, store, calls,
                   setups, completed, own, saw>>

\* client.clone(): #[derive(Clone)] on RedisClient.  The clone of instance c
\* is instance d, the first instance number not in use.
Clone(c, d) ==
    /\ instances[c].live
    /\ ~instances[d].live
    /\ \A e \in 1..(d - 1) : instances[e].live
    /\ instances' = [instances EXCEPT ![d] = instances[c]]
    /\ conn' = [conn EXCEPT ![d] = OnceCell_clone(conn[c])]
    /\ UNCHANGED <<settings, built, pc, call, held, result, store, calls,
                   setups, completed, own, saw>>

\* The closure of get_or_try_init starts for caller t, which holds the permit
\* of the cell of client c
StartSetup(t, c) ==
    /\ own' = [own EXCEPT ![t] = NextId]
    /\ setups' = [setups EXCEPT ![c] = @ + 1]
    /\ pc' = [pc EXCEPT ![t] =
                IF init_variant(instances[c]) = "panic" THEN "panicked"
                ELSE "init"]

\* connect(): the first poll of get_or_try_init on the cell of client c.  A
\* set cell gives its value; with the permit free the caller takes it and
\* starts the setup; otherwise the caller queues for the permit.
Resolve(t, c) ==
    IF conn[c].value_set
    THEN /\ held' = [held EXCEPT ![t] = conn[c].value.val]
         /\ pc' = [pc EXCEPT ![t] = "command"]
         /\ own' = [own EXCEPT ![t] = 0]
         /\ saw' = [saw EXCEPT ![t] = 0]
         /\ UNCHANGED <<conn, setups>>
    ELSE IF conn[c].permit = "free"
    THEN /\ conn' = [conn EXCEPT ![c] =
                       [@ EXCEPT !.permit = "held", !.holder = t]]
         /\ StartSetup(t, c)
         /\ held' = [held EXCEPT ![t] = NoConn]
         /\ saw' = [saw EXCEPT ![t] = 0]
    ELSE /\ conn' = [conn EXCEPT ![c] = [@ EXCEPT !.waiters = Append(@, t)]]
         /\ saw' = [saw EXCEPT ![t] =
                      IF pc[conn[c].holder] = "init" THEN own[conn[c].holder]
                      ELSE 0]
         /\ pc' = [pc EXCEPT ![t] = "waiting"]
         /\ held' = [held EXCEPT ![t] = NoConn]
         /\ own' = [own EXCEPT ![t] = 0]
         /\ UNCHANGED setups

\* A caller calls get, set, delete or append on a client instance, and the
\* future of the call is polled up to its first suspension: the call reaches
\* `self.connect().await`.  Callers are interchangeable: the call takes the
\* first caller that has no call in progress.
Call(t, a) ==
    /\ pc[t] \in {"idle", "done"}
    /\ \A u \in 1..(t - 1) : pc[u] \notin {"idle", "done"}
    /\ instances[a.client].live
    /\ calls < MaxCalls
    /\ calls' = calls + 1
    /\ call' = [call EXCEPT ![t] = a]
    /\ result' = [result EXCEPT ![t] = NoResult]
    /\ Resolve(t, a.client)
    /\ UNCHANGED <<settings, built, instances, store, completed>>

\* A waiter that was handed the permit is polled: the closure starts for it
Acquired(t) ==
    /\ pc[t] = "acquired"
    /\ StartSetup(t, call[t].client)
    /\ UNCHANGED <<settings, built, instances, conn, call, held, result,
                   store, calls, completed, saw>>

\* The connection setup of caller t ends: ConnectionManager::new or
\* get_async_connection returns.  On success the cell is set; on failure the
\* error goes to t and the permit to the next waiter.
SetupDone(t, outcome) ==
    /\ pc[t] = "init"
    /\ LET c == call[t].client
           cell == conn[c]
           v == [variant |-> init_variant(instances[c]), id |-> own[t]]
           next == IF outcome = "ok" THEN set_value(cell, v)
                   ELSE release_permit(cell)
       IN  /\ conn' = [conn EXCEPT ![c] = next]
           /\ pc' = [u \in Tasks |->
                       IF u = t
                       THEN IF outcome = "ok" THEN "command" ELSE "done"
                       ELSE woken(u, next, pc[u])]
           /\ IF outcome = "ok"
              THEN /\ completed' = [completed EXCEPT ![c] = @ + 1]
                   /\ held' = [held EXCEPT ![t] = v]
                   /\ UNCHANGED result
              ELSE /\ result' = [result EXCEPT ![t] =
                                   connect_result(Err(RedisError(outcome)))]
                   /\ UNCHANGED <<completed, held>>
    /\ UNCHANGED <<settings, built, instances, call, store, calls, setups,
                   own, saw>>

\* A waiter is polled after the cell was set: the acquire fails on the closed
\* semaphore and the waiter reads the value
Wake(t) ==
    /\ pc[t] = "waiting"
    /\ conn[call[t].client].value_set
    /\ held' = [held EXCEPT ![t] = conn[call[t].client].value.val]
    /\ pc' = [pc EXCEPT ![t] = "command"]
    /\ UNCHANGED <<settings, built, instances, conn, call, result, store,
                   calls, setups, completed, own, saw>>

\* The reply of the command of caller t on server srv has come
Replied(t, srv, reply) ==
    /\ store' = [store EXCEPT ![srv] = reply.kv]
    /\ result' = [result EXCEPT ![t] = reply.res]

\* The command of the call runs on the resolved connection and the call
\* returns; its clone of the connection is dropped
Command(t, outcome) ==
    /\ pc[t] = "command"
    /\ Replied(t, ServerOf(instances[call[t].client]),
               run_on(held[t], store[ServerOf(instances[call[t].client])],
                      call[t], outcome))
    /\ pc' = [pc EXCEPT ![t] = "done"]
    /\ held' = [held EXCEPT ![t] = NoConn]
    /\ UNCHANGED <<settings, built, instances, conn, call, calls, setups,
                   completed, own, saw>>

\* The caller drops the future of its call before the command is sent: while
\* it waits for the permit, holds it, or runs the setup, or before the
\* command goes out.  A permit it holds goes to the next waiter.
Cancel(t) ==
    /\ pc[t] \in {"waiting", "acquired", "init", "command"}
    /\ LET c == call[t].client
           cell == conn[c]
           next == IF pc[t] = "waiting"
                   THEN [cell EXCEPT !.waiters = Without(@, t)]
                   ELSE IF pc[t] \in {"acquired", "init"}
                   THEN release_permit(cell)
                   ELSE cell
       IN  /\ conn' = [conn EXCEPT ![c] = next]
           /\ pc' = [u \in Tasks |->
                       IF u = t THEN "idle" ELSE woken(u, next, pc[u])]
    /\ call' = [call EXCEPT ![t] = NoCall]
    /\ held' = [held EXCEPT ![t] = NoConn]
    /\ own' = [own EXCEPT ![t] = 0]
    /\ saw' = [saw EXCEPT ![t] = 0]
    /\ UNCHANGED <<settings, built, instances, result, store, calls, setups,
                   completed>>

\* The caller drops the future of its call after the command was sent: the
\* store runs the command and the reply is lost
CancelSent(t) ==
    /\ pc[t] = "command"
    /\ LET srv == ServerOf(instances[call[t].client])
           reply == run_on(held[t], store[srv], call[t], "ok")
       IN  store' = [store EXCEPT ![srv] = reply.kv]
    /\ pc' = [pc EXCEPT ![t] = "idle"]
    /\ call' = [call EXCEPT ![t] = NoCall]
    /\ held' = [held EXCEPT ![t] = NoConn]
    /\ own' = [own EXCEPT ![t] = 0]
    /\ saw' = [saw EXCEPT ![t] = 0]
    /\ UNCHANGED <<settings, built, instances, conn, result, calls, setups,
                   completed>>

\* A second passes in the store: expiries count down, and a key whose expiry
\* has run out is gone
Tick ==
    /\ \E s \in Servers, k \in Keys : store[s][k].expires
    /\ store' = [s \in Servers |-> [k \in Keys |->
                    IF ~store[s][k].expires THEN store[s][k]
                    ELSE IF store[s][k].ttl = 1 THEN Absent
                    ELSE [store[s][k] EXCEPT !.ttl = @ - 1]]]
    /\ UNCHANGED <<settings, built, instances, conn, pc, call, held, result,
                   calls, setups, completed, own, saw>>

Next ==
    \/ Construct
    \/ \E c \in Clients, d \in Clients : Clone(c, d)
    \/ \E t \in Tasks, a \in RunCalls : Call(t, a)
    \/ \E t \in Tasks : Acquired(t)
    \/ \E t \in Tasks, o \in SetupOutcomes : SetupDone(t, o)
    \/ \E t \in Tasks : Wake(t)
    \/ \E t \in Tasks, o \in CommandOutcomes : Command(t, o)
    \/ \E t \in Tasks : Cancel(t)
    \/ \E t \in Tasks : CancelSent(t)

Spec == Init /\ [][Next]_vars

\* The runs in which whatever is pending makes progress: every setup attempt
\* and every command completes, with success or failure, and a caller that
\* was woken (handed the permit, or woken by the closing of the semaphore) is
\* polled by its executor.  Nothing forces a caller to call or to drop a call.
\* At most one of the four steps is enabled for a caller at a time, by where
\* its call is.
Progress(t) ==
    \/ \E o \in SetupOutcomes : SetupDone(t, o)
    \/ \E o \in CommandOutcomes : Command(t, o)
    \/ Acquired(t)
    \/ Wake(t)

Fairness == \A t \in Tasks : WF_vars(Progress(t))

\* The calls of these runs are reads: which command a call sends makes no
\* difference to whether it returns.
LiveCalls == {a \in RunCalls : a.op = "get"}

NextLive ==
    \/ Construct
    \/ \E c \in Clients, d \in Clients : Clone(c, d)
    \/ \E t \in Tasks, a \in LiveCalls : Call(t, a)
    \/ \E t \in Tasks : Acquired(t)
    \/ \E t \in Tasks, o \in SetupOutcomes : SetupDone(t, o)
    \/ \E t \in Tasks : Wake(t)
    \/ \E t \in Tasks, o \in CommandOutcomes : Command(t, o)
    \/ \E t \in Tasks : Cancel(t)
    \/ \E t \in Tasks : CancelSent(t)

SpecLive == Init /\ [][NextLive]_vars /\ Fairness

\* Construction and cloning alone, over all the settings of the model
InitNew == InitWith(AllSettings)

NextNew ==
    \/ Construct
    \/ \E c \in Clients, d \in Clients : Clone(c, d)

SpecNew == InitNew /\ [][NextNew]_vars

\* The endpoint parser alone: RedisClient::new in single mode passes
\* settings.address to get_connection_info, for every endpoint string of the
\* model and every db, username and password.
ParseSettings ==
    [address   : {Some(e) : e \in Endpoints},
     addresses : {None},
     username  : OptionOf(Usernames),
     password  : OptionOf(Passwords),
     db        : DbIndexes]

InitParse == InitWith(ParseSettings)

NextParse == Construct

SpecParse == InitParse /\ [][NextParse]_vars

(***************************************************************************)
(* Two clients side by side: instance 1 in single mode on its node and      *)
(* instance 2 in cluster mode on its cluster, given the same calls with the *)
(* same outcomes of the driver, one call after the other.                   *)
(***************************************************************************)
MaxSteps == 3

ClusterSettings ==
    [DefaultSettings EXCEPT !.addresses = Some(<<"a", ":", "1", ",", "b">>)]

\* The calls of the runs without concurrency: two keys, two values, and
\* durations of half a second, one second, two and a half seconds
AloneCalls == CallsWith({1}, Keys, Values, Durations)

\* connect() of a caller that is alone on the cell: the value of a set cell,
\* or one setup attempt with the given outcome, which sets the cell or leaves
\* it empty with the permit free
resolve_alone(inst, cell, id, so) ==
    IF cell.value_set THEN [cell |-> cell, conn |-> Ok(cell.value.val)]
    ELSE IF so = "ok"
    THEN [cell |-> set_value([cell EXCEPT !.permit = "held"],
                             [variant |-> init_variant(inst), id |-> id]),
          conn |-> Ok([variant |-> init_variant(inst), id |-> id])]
    ELSE [cell |-> release_permit([cell EXCEPT !.permit = "held"]),
          conn |-> connect_result(Err(RedisError(so)))]

\* After `self.connect().await?`: the error of connect, or the operation
after_connect(r, kv, a, co) ==
    IF ~r.conn.ok THEN [cell |-> r.cell, kv |-> kv, res |-> r.conn]
    ELSE [cell |-> r.cell,
          kv   |-> run_on(r.conn.val, kv, a, co).kv,
          res  |-> run_on(r.conn.val, kv, a, co).res]

\* One whole call of get, set, delete or append by a caller that is alone
call_alone(inst, cell, kv, a, id, so, co) ==
    after_connect(resolve_alone(inst, cell, id, so), kv, a, co)

InitModes ==
    /\ settings = DefaultSettings
    /\ built = [done |-> TRUE, res |-> new(DefaultSettings)]
    /\ instances = [c \in Clients |->
                      IF c = 1 THEN InstanceOf(new(DefaultSettings).val)
                      ELSE IF c = 2 THEN InstanceOf(new(ClusterSettings).val)
                      ELSE NoInstance]
    /\ conn = [c \in Clients |->
                 IF c = 1 THEN new(DefaultSettings).val.conn
                 ELSE IF c = 2 THEN new(ClusterSettings).val.conn
                 ELSE NoCell]
    /\ pc = [t \in Tasks |-> "idle"]
    /\ call = [t \in Tasks |-> NoCall]
    /\ held = [t \in Tasks |-> NoConn]
    /\ result = [t \in Tasks |-> NoResult]
    /\ store = [s \in Servers |-> EmptyStore]
    /\ calls = 0
    /\ setups = [c \in Clients |-> 0]
    /\ completed = [c \in Clients |-> 0]
    /\ own = [t \in Tasks |-> 0]
    /\ saw = [t \in Tasks |-> 0]

\* Both calls have returned: r1 on instance 1, r2 on instance 2
PairDone(a, r1, r2) ==
    /\ conn' = [conn EXCEPT ![1] = r1.cell, ![2] = r2.cell]
    /\ store' = [store EXCEPT ![ServerOf(instances[1])] = r1.kv,
                              ![ServerOf(instances[2])] = r2.kv]
    /\ result' = [result EXCEPT ![1] = r1.res, ![2] = r2.res]
    /\ call' = [call EXCEPT ![1] = a, ![2] = [a EXCEPT !.client = 2]]
    /\ pc' = [pc EXCEPT ![1] = "done", ![2] = "done"]
    /\ setups' = [setups EXCEPT
                    ![1] = IF conn[1].value_set THEN @ ELSE @ + 1,
                    ![2] = IF conn[2].value_set THEN @ ELSE @ + 1]
    /\ completed' = [completed EXCEPT
                    ![1] = IF ~conn[1].value_set /\ r1.cell.value_set
                           THEN @ + 1 ELSE @,
                    ![2] = IF ~conn[2].value_set /\ r2.cell.value_set
                           THEN @ + 1 ELSE @]

\* The same call on both clients, with the same outcomes of the driver
PairCall(a, so, co) ==
    /\ calls < MaxSteps
    /\ calls' = calls + 1
    /\ PairDone(a,
                call_alone(instances[1], conn[1],
                           store[ServerOf(instances[1])], a, NextId, so, co),
                call_alone(instances[2], conn[2],
                           store[ServerOf(instances[2])], a, NextId + 1, so,
                           co))
    /\ UNCHANGED <<settings, built, instances, held, own, saw>>

NextModes ==
    \/ \E a \in AloneCalls, so \in SetupOutcomes, co \in CommandOutcomes :
          PairCall(a, so, co)
    \/ Tick

SpecModes == InitModes /\ [][NextModes]_vars

(***************************************************************************)
(* One client from construction on, used by one caller, over settings with  *)
(* and without password of which some are refused.                          *)
(***************************************************************************)
RenderSettings ==
    [address   : OptionOf({<<" ">>, <<"f", "t", "p">> \o Sep \o <<"a">>,
                           <<"a", ":", "1">>}),
     addresses : OptionOf({<<>>, <<"a", ":", "1", ",", "b">>,
                           S_unix \o Sep \o <<"a", "/", "p">>}),
     username  : {None},
     password  : OptionOf(Passwords),
     db        : DbIndexes]

InitRender == InitWith(RenderSettings)

\* The call has returned r
DoneAlone(a, r) ==
    /\ conn' = [conn EXCEPT ![1] = r.cell]
    /\ store' = [store EXCEPT ![ServerOf(instances[1])] = r.kv]
    /\ result' = [result EXCEPT ![1] = r.res]
    /\ call' = [call EXCEPT ![1] = a]
    /\ pc' = [pc EXCEPT ![1] = "done"]
    /\ setups' = [setups EXCEPT
                    ![1] = IF conn[1].value_set THEN @ ELSE @ + 1]
    /\ completed' = [completed EXCEPT
                    ![1] = IF ~conn[1].value_set /\ r.cell.value_set
                           THEN @ + 1 ELSE @]

\* One whole call on the constructed client, with the outcomes of the driver
CallAlone(a, so, co) ==
    /\ instances[1].live
    /\ a.client = 1
    /\ calls < MaxSteps
    /\ calls' = calls + 1
    /\ DoneAlone(a, call_alone(instances[1], conn[1],
                               store[ServerOf(instances[1])], a, NextId, so,
                               co))
    /\ UNCHANGED <<settings, built, instances, held, own, saw>>

NextRender ==
    \/ Construct
    \/ \E a \in RunCalls, so \in SetupOutcomes, co \in CommandOutcomes :
          CallAlone(a, so, co)

SpecRender == InitRender /\ [][NextRender]_vars

(***************************************************************************)
(* Rendering: Display and Debug of Error, Debug of RedisSettings and of     *)
(* RedisClient.  A rendering is the sequence of the pieces written: the     *)
(* literals of the format strings and the texts of the values.              *)
(***************************************************************************)
Lit(s) == [lit |-> s]

Text(chars) == [text |-> chars]

\* Display of the source: the text the parse error or the driver's error has
\* for its kind
Shown(src) == [shown |-> src.type, of |-> src.kind]

\* format!("{k}: {v}") of one context entry
context_pair(kv) == <<Lit(kv[1]), Lit(": "), Text(kv[2])>>

\* .collect::<Vec<_>>().join(", ") over the context entries from i on
RECURSIVE joined(_, _)
joined(context, i) ==
    IF i > Len(context) THEN <<>>
    ELSE IF i = Len(context) THEN context_pair(context[i])
    ELSE context_pair(context[i]) \o <<Lit(", ")>> \o joined(context, i + 1)

\* The lines "   {k}: {v}" of the detailed form, from entry i on
RECURSIVE context_lines(_, _)
context_lines(context, i) ==
    IF i > Len(context) THEN <<>>
    ELSE <<Lit("   ")>> \o context_pair(context[i]) \o <<Lit("\n")>>
         \o context_lines(context, i + 1)

\* impl Display for Error: the single-line form
Error_display(e) ==
    <<Lit(e.kind)>>
    \o (IF Len(e.context) > 0
        THEN <<Lit(", context: { ")>> \o joined(e.context, 1) \o <<Lit(" }")>>
        ELSE <<>>)
    \o (IF e.message # "" THEN <<Lit(" => "), Lit(e.message)>> ELSE <<>>)
    \o (IF e.source.some
        THEN <<Lit(", source: "), Shown(e.source.val)>> ELSE <<>>)

\* impl Debug for Error without the alternate flag: the detailed form (no
\* backtrace is captured)
Error_debug(e) ==
    <<Lit(e.kind)>>
    \o (IF e.message # "" THEN <<Lit(" => "), Lit(e.message)>> ELSE <<>>)
    \o <<Lit("\n")>>
    \o (IF Len(e.context) > 0
        THEN <<Lit("\n"), Lit("Context:"), Lit("\n")>>
             \o context_lines(e.context, 1)
        ELSE <<>>)
    \o (IF e.source.some
        THEN <<Lit("\n"), Lit("Source:"), Lit("\n"), Lit("   "),
               Shown(e.source.val), Lit("\n")>>
        ELSE <<>>)

\* The fields of a context entry as the derived Debug of the tuple writes them
RECURSIVE context_fields(_, _)
context_fields(context, i) ==
    IF i > Len(context) THEN <<>>
    ELSE <<Lit(context[i][1]), Text(context[i][2])>>
         \o context_fields(context, i + 1)

\* impl Debug for Error with the alternate flag: debug_struct("Error")
Error_debug_alternate(e) ==
    <<Lit("Error"), Lit("kind"), Lit(e.kind), Lit("message"), Lit(e.message),
      Lit("context")>>
    \o context_fields(e.context, 1)
    \o <<Lit("source")>>
    \o (IF e.source.some THEN <<Shown(e.source.val)>> ELSE <<Lit("None")>>)

\* A mutant of the Debug of RedisSettings: the password is written as it is.
RedisSettings_debug_with_password(s) ==
    <<Lit("RedisSettings"), Lit("db"), Text(to_string(s.db))>>
    \o (IF s.address.some THEN <<Lit("address"), Text(s.address.val)>>
        ELSE <<>>)
    \o (IF s.addresses.some
        THEN <<Lit("cluster_endpoints"), Text(s.addresses.val)>> ELSE <<>>)
    \o (IF s.username.some THEN <<Lit("username"), Text(s.username.val)>>
        ELSE <<>>)
    \o (IF s.password.some THEN <<Lit("password"), Text(s.password.val)>>
        ELSE <<>>)
    \o <<Lit("..")>>

\* impl Debug for RedisSettings
RedisSettings_debug(s) ==
    <<Lit("RedisSettings"), Lit("db"), Text(to_string(s.db))>>
    \o (IF s.address.some THEN <<Lit("address"), Text(s.address.val)>>
        ELSE <<>>)
    \o (IF s.addresses.some
        THEN <<Lit("cluster_endpoints"), Text(s.addresses.val)>> ELSE <<>>)
    \o (IF s.username.some THEN <<Lit("username"), Text(s.username.val)>>
        ELSE <<>>)
    \o (IF s.password.some THEN <<Lit("password"), Lit("<redacted>")>>
        ELSE <<>>)
    \o <<Lit("..")>>

\* impl Debug for RedisClient
RedisClient_debug(inst) ==
    <<Lit("RedisClient"), Lit("addresses"), Text(inst.addresses)>>

(***************************************************************************)
(* Properties                                                               *)
(***************************************************************************)
LiveClients == {c \in Clients : instances[c].live}

\* Callers with a call in progress
Busy(t) == pc[t] \in {"waiting", "acquired", "init", "command"}

\* C1: on every client instance at most one connection setup completes
\* successfully; a cell that holds a connection keeps that very connection for
\* good and no further setup is started on it; and every call that has resolved
\* the connection holds a clone of the connection in the cell.
C1_SetupOnce ==
    [][/\ \A c \in Clients :
            /\ completed'[c] <= 1
            /\ conn[c].value_set =>
                  /\ conn'[c].value_set
                  /\ conn'[c].value = conn[c].value
                  /\ setups'[c] = setups[c]
       /\ \A t \in Tasks :
            pc'[t] = "command" =>
                /\ conn'[call'[t].client].value_set
                /\ held'[t] = conn'[call'[t].client].value.val]_vars

\* C1 witness: two callers of the same instance hold the same connection, one
\* of them having waited for the setup that the other ran.
C1_Witness ==
    \E t \in Tasks, u \in Tasks :
        /\ t # u
        /\ pc[t] = "command" /\ pc[u] = "command"
        /\ call[t].client = call[u].client
        /\ own[t] # 0 /\ saw[u] = own[t] /\ own[u] = 0
        /\ held[t] = held[u]
        /\ completed[call[t].client] = 1

\* An empty cell is open: its permit is free, or a caller of the instance
\* holds it and is about to run, or is running, the setup.
CellOpen(c) ==
    \/ conn[c].permit = "free"
    \/ /\ conn[c].permit = "held"
       /\ conn[c].holder \in Tasks
       /\ pc[conn[c].holder] \in {"acquired", "init"}
       /\ call[conn[c].holder].client = c

\* C2: a failed setup attempt leaves the cell empty and open; a call that finds
\* the cell empty with the permit free starts a new setup attempt; and when an
\* attempt succeeds the cell holds its connection and the call goes on to its
\* command with it.
C2_NoPoison ==
    [][/\ \A c \in Clients : ~conn'[c].value_set => CellOpen(c)'
       /\ \A t \in Tasks :
            /\ (pc[t] = "init" /\ pc'[t] = "done") =>
                  /\ ~conn'[call[t].client].value_set
                  /\ ~result'[t].ok
            /\ (pc[t] \in {"idle", "done"} /\ Busy(t)'
                  /\ ~conn[call'[t].client].value_set
                  /\ conn[call'[t].client].permit = "free") =>
                  /\ pc'[t] = "init"
                  /\ setups'[call'[t].client] = setups[call'[t].client] + 1
            /\ (pc[t] = "init" /\ pc'[t] = "command") =>
                  /\ conn'[call[t].client].value_set
                  /\ conn'[call[t].client].value.val.id = own[t]
                  /\ held'[t].id = own[t]]_vars

\* C2 witness: after a caller's attempt failed, a later attempt on the same
\* instance has succeeded and its caller is at its command.
C2_Witness ==
    \E t \in Tasks, u \in Tasks :
        /\ pc[u] = "done" /\ ~result[u].ok /\ own[u] # 0
        /\ pc[t] = "command" /\ own[t] > own[u]
        /\ call[t].client = call[u].client
        /\ conn[call[t].client].value_set
        /\ setups[call[t].client] = 2

\* C3 as claimed: a caller that began to wait while a setup attempt was in
\* flight never starts an attempt of its own in that call.
C3_WaiterNeverSetsUp ==
    \A t \in Tasks : saw[t] # 0 => own[t] = 0

\* C3 as amended: a caller that waits for the permit never receives the
\* failure of another caller's attempt; it goes on to its command only with
\* the connection of a cell that was set, without an attempt of its own; and it
\* is handed the permit, and then starts an attempt of its own, only when it is
\* the first of the queue and the cell is still empty because the caller that
\* held the permit failed or gave up.
C3_WaiterSharesSuccessOnly ==
    [][\A t \in Tasks :
         /\ pc[t] = "waiting" =>
              /\ pc'[t] \in {"waiting", "acquired", "command", "idle"}
              /\ pc'[t] = "command" =>
                    /\ conn[call[t].client].value_set
                    /\ held'[t] = conn[call[t].client].value.val
                    /\ own'[t] = 0
              /\ pc'[t] = "acquired" =>
                    /\ ~conn'[call[t].client].value_set
                    /\ conn'[call[t].client].holder = t
                    /\ Head(conn[call[t].client].waiters) = t
                    /\ pc'[conn[call[t].client].holder] \in {"done", "idle"}
         /\ (pc[t] = "acquired" /\ pc'[t] = "init") =>
              /\ own'[t] # 0
              /\ ~conn[call[t].client].value_set]_vars

\* C3 witness: a caller that began to wait behind an attempt in flight runs an
\* attempt of its own, the one it waited for having failed.
C3_Witness ==
    \E t \in Tasks, u \in Tasks :
        /\ pc[t] = "init" /\ saw[t] # 0 /\ own[t] > saw[t]
        /\ pc[u] = "done" /\ own[u] = saw[t] /\ ~result[u].ok

\* C4: given the same calls with the same outcomes of the driver, the client
\* in single mode and the client in cluster mode return the same values and
\* the same errors, leave their stores with the same contents, and their cells
\* are set or empty together.
C4_ModesAgree ==
    /\ store[ServerOf(instances[1])] = store[ServerOf(instances[2])]
    /\ result[1] = result[2]
    /\ conn[1].value_set = conn[2].value_set
    /\ conn[1].value_set =>
          /\ conn[1].value.val.variant = "Single"
          /\ conn[2].value.val.variant = "Cluster"

\* C4 witness: after three calls on each client a key holds a value with an
\* expiry and the last call returned an error.
C4_Witness ==
    /\ calls = MaxSteps
    /\ ServerOf(instances[1]) # ServerOf(instances[2])
    /\ conn[2].value_set /\ conn[2].value.val.variant = "Cluster"
    /\ \E k \in Keys : store["cluster"][k].expires
    /\ ~result[2].ok

\* C5: every constructed client, and every clone of one, has exactly one of
\* the single-node template and the cluster template.
C5_ExactlyOneTemplate ==
    /\ (built.done /\ built.res.ok) =>
          (built.res.val.client.some # built.res.val.cluster_client.some)
    /\ \A c \in LiveClients :
          instances[c].client.some # instances[c].cluster_client.some

\* C5 witness: a client in cluster mode and its clone.
C5_Witness ==
    /\ built.done /\ built.res.ok
    /\ instances[1].live /\ instances[2].live
    /\ instances[2].cluster_client.some
    /\ settings.address.some

\* A client in cluster mode
IsCluster(client) == client.cluster_client.some /\ ~client.client.some

\* Every piece of the address list parses to a descriptor
PiecesParse(s) ==
    \A i \in 1..Len(Split(s.addresses.val)) :
        get_connection_info(Split(s.addresses.val)[i], s).ok

\* C6: with settings.addresses present, what construction returns is what it
\* returns for the same settings without address, so that settings.address has
\* no effect on the client or on the success; and when every piece of the list
\* parses, the cluster branch was taken: the result is a client in cluster
\* mode, or the error of the driver that refused the cluster template.
C6_AddressesWin ==
    (built.done /\ settings.addresses.some) =>
        /\ built.res = new([settings EXCEPT !.address = None])
        /\ built.res.ok => IsCluster(built.res.val)
        /\ PiecesParse(settings) =>
              \/ built.res.ok
              \/ /\ built.res.err.kind = "Unexpected"
                 /\ built.res.err.message = "invalid client config"

\* C6 witness: a list of two pieces, together with an address that the
\* endpoint parser refuses, gives a client in cluster mode.
C6_Witness ==
    /\ built.done /\ built.res.ok
    /\ settings.addresses.some /\ Len(Split(settings.addresses.val)) = 2
    /\ settings.address.some
    /\ ~get_connection_info(settings.address.val, settings).ok
    /\ IsCluster(built.res.val)

\* C7 as claimed: construction takes the cluster branch exactly when
\* settings.addresses is present and not empty, and in every other case, an
\* empty addresses included, it builds the single-mode client of
\* settings.address or of the default endpoint.
C7_EmptyListIsSingle ==
    built.done =>
        IF settings.addresses.some /\ Len(settings.addresses.val) > 0
        THEN built.res.ok => IsCluster(built.res.val)
        ELSE built.res =
                single_at(unwrap_or(settings.address, DEFAULT_REDIS_ENDPOINT),
                          settings)

\* C7 as amended: a constructed client is in cluster mode exactly when
\* settings.addresses is present, whatever it holds; an addresses that is
\* present and empty makes construction fail with ConfigInvalid, "endpoint is
\* invalid", for the empty endpoint; without addresses the client is the
\* single-mode client of settings.address, or of the default endpoint
\* tcp://127.0.0.1:6379 when there is no address, and with neither field set
\* construction succeeds.
C7_PresenceSelectsCluster ==
    built.done =>
        /\ built.res.ok => (IsCluster(built.res.val) <=> settings.addresses.some)
        /\ (settings.addresses.some /\ Len(settings.addresses.val) = 0) =>
              /\ ~built.res.ok
              /\ built.res.err.kind = "ConfigInvalid"
              /\ built.res.err.message = "endpoint is invalid"
              /\ built.res.err.context = <<<<"endpoint", <<>>>>>>
        /\ (~settings.addresses.some /\ built.res.ok) =>
              /\ built.res.val.client.some
              /\ built.res.val.addresses =
                    unwrap_or(settings.address, DEFAULT_REDIS_ENDPOINT)
        /\ (~settings.addresses.some /\ ~settings.address.some) =>
              /\ built.res.ok
              /\ built.res.val.addresses = DEFAULT_REDIS_ENDPOINT
              /\ built.res.val.client.val.connection_info.addr =
                    [type |-> "Tcp", host |-> S_localhost,
                     port |-> DEFAULT_REDIS_PORT]

\* C7 witness: construction has failed on an addresses that is present and
\* empty, with an address that parses.
C7_Witness ==
    /\ built.done /\ ~built.res.ok
    /\ settings.addresses.some /\ Len(settings.addresses.val) = 0
    /\ settings.address.some
    /\ get_connection_info(settings.address.val, settings).ok

\* C8: construction starts no connection setup and leaves the cell empty with
\* its permit free; as long as no call was made, no setup attempt was started
\* and no cell holds a connection, on the client and on its clones; and the
\* first call starts the first setup attempt.
C8_LazyConnect ==
    [][/\ (~built.done /\ built'.done) =>
            /\ \A c \in Clients : ~conn'[c].value_set /\ conn'[c].permit = "free"
            /\ setups' = setups
            /\ built'.res.ok => ~built'.res.val.conn.value_set
       /\ calls' = 0 =>
            \A c \in Clients : setups'[c] = 0 /\ ~conn'[c].value_set
       /\ (calls = 0 /\ calls' = 1) =>
            \E t \in Tasks :
                /\ pc'[t] = "init"
                /\ own'[t] = 1
                /\ setups'[call'[t].client] = 1]_vars

\* C8 witness: the first call on a constructed client runs the first setup
\* attempt.
C8_Witness ==
    /\ built.done /\ built.res.ok
    /\ calls = 1
    /\ pc[1] = "init" /\ own[1] = 1
    /\ setups[call[1].client] = 1
    /\ ~conn[call[1].client].value_set

\* C9: every error that get, set, delete or append returns has the kind
\* Unexpected, the category of the driver's error as its message, that error
\* as its source, and no context.
C9_OperationErrorsUnexpected ==
    \A t \in Tasks :
        (pc[t] = "done" /\ ~result[t].ok) =>
            /\ result[t].err.kind = "Unexpected"
            /\ result[t].err.source.some
            /\ result[t].err.source.val.type = "RedisError"
            /\ result[t].err.message = category(result[t].err.source.val)
            /\ result[t].err.context = <<>>

\* C9 witness: a set on a connected client has returned the error of the store
\* that refused the command.
C9_Witness ==
    /\ pc[1] = "done" /\ ~result[1].ok
    /\ result[1].err.source.val.kind = "ResponseError"
    /\ call[1].op = "set"
    /\ conn[1].value_set

\* The endpoints that construction looks at: the pieces of the address list,
\* or the address, or the default endpoint
EndpointsOf(s) ==
    IF s.addresses.some
    THEN {Split(s.addresses.val)[i] : i \in 1..Len(Split(s.addresses.val))}
    ELSE {unwrap_or(s.address, DEFAULT_REDIS_ENDPOINT)}

\* C10 as claimed: every ConfigInvalid error of construction carries the
\* endpoint it refused in its context.
C10_ConfigInvalidHasEndpoint ==
    (built.done /\ ~built.res.ok /\ built.res.err.kind = "ConfigInvalid") =>
        \E i \in 1..Len(built.res.err.context) :
            built.res.err.context[i][2] \in EndpointsOf(settings)

\* The decimal number that the digits s write, without a limit
RECURSIVE WrittenNumber(_, _)
WrittenNumber(s, acc) ==
    IF Len(s) = 0 THEN acc
    ELSE WrittenNumber(Tail(s), acc * 10 + DigitVal(s[1]))

\* The port that the authority writes after its colon, 6379 without a colon
WrittenPort(authority, c) ==
    IF c = 0 THEN DEFAULT_REDIS_PORT
    ELSE WrittenNumber(Slice(authority, c + 1, Len(authority)), 0)

\* The host that the authority writes before its colon, 127.0.0.1 without one
WrittenHost(authority, c) ==
    IF Len(authority) = 0 THEN S_localhost
    ELSE IF c = 0 THEN authority
    ELSE Slice(authority, 1, c - 1)

\* Host and port of the address are the ones the URI writes, or the defaults
HostPortAsWritten(uri, addr) ==
    /\ addr.host = WrittenHost(uri.authority, FindFrom(uri.authority, ":", 1))
    /\ addr.port = WrittenPort(uri.authority, FindFrom(uri.authority, ":", 1))

\* What the parser returns for a URI, by its scheme
ByScheme(uri, res) ==
    CASE ~uri.scheme.some \/ (uri.scheme.some /\ uri.scheme.val \in {S_tcp, S_redis}) ->
            /\ res.ok
            /\ res.val.addr.type = "Tcp"
            /\ HostPortAsWritten(uri, res.val.addr)
      [] uri.scheme.some /\ uri.scheme.val = S_rediss ->
            /\ res.ok
            /\ res.val.addr.type = "TcpTls"
            /\ ~res.val.addr.insecure
            /\ res.val.addr.tls_params = None
            /\ HostPortAsWritten(uri, res.val.addr)
      [] uri.scheme.some /\ uri.scheme.val \in {S_unix, S_redis_unix} ->
            /\ res.ok
            /\ res.val.addr.type = "Unix"
            /\ res.val.addr.path = path(uri)
      [] OTHER ->
            /\ ~res.ok
            /\ res.err.kind = "ConfigInvalid"

\* The descriptor that construction in single mode got from the parser
ParsedOf(res) ==
    IF res.ok THEN Ok(res.val.client.val.connection_info) ELSE res

CopiesSettings(res, s) ==
    res.ok =>
        /\ res.val.redis.db = s.db
        /\ res.val.redis.username = s.username
        /\ res.val.redis.password = s.password

ParserAsClaimed(uri, res, s) ==
    uri.ok => (ByScheme(uri.val, res) /\ CopiesSettings(res, s))

\* C11: for every endpoint string that is a URI, the parser's result is
\* determined by the scheme: tcp, redis or no scheme give Tcp, rediss gives
\* TcpTls (not insecure, no TLS parameters), both with the host and the port
\* that the endpoint writes, 127.0.0.1 and 6379 when it writes none; unix and
\* redis+unix give a Unix socket with the path of the URI; any other scheme
\* fails with ConfigInvalid; db, username and password are those of the
\* settings.
C11_ParserByScheme ==
    built.done =>
        ParserAsClaimed(ParseUri(settings.address.val), ParsedOf(built.res),
                        settings)

\* The store of the server behind the client on which caller t calls
StoreOf(t) == store[ServerOf(instances[call[t].client])]

\* The last call of caller t was op and has succeeded
Succeeded(t, op) == pc[t] = "done" /\ call[t].op = op /\ result[t].ok

\* The next step is a call of op by caller t on the key of its last call,
\* and it succeeds
ThenOnSameKey(t, op) ==
    /\ calls' = calls + 1
    /\ call'[t].op = op
    /\ call'[t].key = call[t].key
    /\ result'[t].ok

\* C12: after a set(k, v) without ttl that succeeded, k holds v without
\* expiry, whatever value and expiry it held before, and a get(k) that
\* follows returns Some(v), in single mode and in cluster mode.
C12_SetThenGet ==
    [][\A t \in 1..2 :
        /\ (calls' = calls + 1 /\ call'[t].op = "set" /\ ~call'[t].ttl.some
              /\ result'[t].ok) =>
               store'[ServerOf(instances[t])][call'[t].key] =
                   [present |-> TRUE, val |-> call'[t].value,
                    expires |-> FALSE, ttl |-> 0]
        /\ (Succeeded(t, "set") /\ ~call[t].ttl.some
              /\ ThenOnSameKey(t, "get")) =>
               result'[t].val = Some(call[t].value)]_vars

\* C12 witness: the third call, a get, has returned the value 2 of a key that
\* has no expiry while the other key holds a value that expires.
C12_Witness ==
    /\ calls = 3
    /\ Succeeded(1, "get") /\ Succeeded(2, "get")
    /\ result[1].val = Some(<<2>>) /\ result[2].val = Some(<<2>>)
    /\ ~StoreOf(1)[call[1].key].expires
    /\ \E k \in Keys : StoreOf(2)[k].expires

\* The error came from the driver failing the setup or the command, not from
\* the store refusing the command
DriverFailed(res) ==
    /\ ~res.ok
    /\ res.err.source.some
    /\ res.err.source.val.kind \in (SetupOutcomes \cup CommandOutcomes)

\* C13 as claimed: for every ttl, also one shorter than a second, a
\* set(k, v, ttl) that the driver does not fail succeeds and leaves k with the
\* value v and an expiry of the ttl's whole seconds; a get(k) that follows
\* returns Some(v) as long as the expiry has not run out and None afterwards.
C13_SetWithTtl ==
    [][\A t \in 1..2 :
        /\ (calls' = calls + 1 /\ call'[t].op = "set" /\ call'[t].ttl.some) =>
              /\ result'[t].ok \/ DriverFailed(result'[t])
              /\ result'[t].ok =>
                    store'[ServerOf(instances[t])][call'[t].key] =
                        [present |-> TRUE, val |-> call'[t].value,
                         expires |-> TRUE,
                         ttl |-> call'[t].ttl.val \div MillisPerSec]
        /\ (Succeeded(t, "set") /\ call[t].ttl.some
              /\ ThenOnSameKey(t, "get")) =>
               result'[t].val =
                   IF StoreOf(t)[call[t].key].present
                   THEN Some(call[t].value) ELSE None]_vars

\* The next step is a call of op by caller t
Calls(t, op) == calls' = calls + 1 /\ call'[t].op = op

\* C14: a delete(k) that the driver does not fail succeeds whether or not k
\* is present, leaves k absent and every other key as it was; and a second
\* delete(k) succeeds again and leaves the store as the first left it.
C14_DeleteIdempotent ==
    [][\A t \in 1..2 :
        /\ Calls(t, "delete") =>
              /\ result'[t].ok \/ DriverFailed(result'[t])
              /\ result'[t].ok =>
                    /\ ~store'[ServerOf(instances[t])][call'[t].key].present
                    /\ \A k \in Keys \ {call'[t].key} :
                          store'[ServerOf(instances[t])][k] =
                              store[ServerOf(instances[t])][k]
              /\ ~result'[t].ok => store' = store
        /\ (Succeeded(t, "delete") /\ ThenOnSameKey(t, "delete")) =>
              store' = store]_vars

\* C14 witness: the third call, a delete, has succeeded; its key is absent
\* and the other key still holds its value.
C14_Witness ==
    /\ calls = 3
    /\ Succeeded(1, "delete") /\ Succeeded(2, "delete")
    /\ ~StoreOf(1)[call[1].key].present
    /\ \E k \in Keys : StoreOf(1)[k].present /\ StoreOf(2)[k].present

\* What a key holds, the empty value when it is absent
Held(kv, key) == IF kv[key].present THEN kv[key].val ELSE <<>>

\* C15: an append(k, v) that succeeds leaves k with v after what k held
\* before, with v alone when k was absent, and every other key as it was; a
\* get(k) that follows returns that value, so that append(k, v1),
\* append(k, v2), get(k) on an absent k returns Some(v1 \o v2).
C15_AppendExtends ==
    [][\A t \in 1..2 :
        /\ (Calls(t, "append") /\ result'[t].ok) =>
              /\ store'[ServerOf(instances[t])][call'[t].key].present
              /\ store'[ServerOf(instances[t])][call'[t].key].val =
                    Held(store[ServerOf(instances[t])], call'[t].key)
                        \o call'[t].value
              /\ \A k \in Keys \ {call'[t].key} :
                    store'[ServerOf(instances[t])][k] =
                        store[ServerOf(instances[t])][k]
        /\ (Succeeded(t, "append") /\ ThenOnSameKey(t, "get")
              /\ StoreOf(t)[call[t].key].present) =>
              result'[t].val = Some(StoreOf(t)[call[t].key].val)]_vars

\* C15 witness: the third call, a get, has returned the two values 1 and 2
\* one after the other, and the other key was never written.
C15_Witness ==
    /\ calls = 3
    /\ Succeeded(1, "get") /\ Succeeded(2, "get")
    /\ result[1].val = Some(<<1, 2>>) /\ result[2].val = Some(<<1, 2>>)
    /\ \E k \in Keys : StoreOf(1)[k] = Absent

\* Caller t drops its call in this step
Abandons(t) == Busy(t) /\ pc'[t] = "idle"

\* Caller t is nowhere in the cell
NotIn(cell, t) ==
    /\ cell.holder # t
    /\ \A i \in 1..Len(cell.waiters) : cell.waiters[i] # t

\* After the caller that held the permit of the cell `before` gave up, the
\* cell `after` is empty and its permit is free, or in the hands of the
\* caller that waited first, which will run the setup
PassedOn(before, after) ==
    /\ ~after.value_set
    /\ IF Len(before.waiters) = 0
       THEN after.permit = "free" /\ after.waiters = <<>>
       ELSE /\ after.permit = "held"
            /\ after.holder = Head(before.waiters)
            /\ after.waiters = Tail(before.waiters)
            /\ pc'[after.holder] = "acquired"

\* C16: a caller may drop its call wherever the call is suspended, and the
\* client stays usable.  The drop leaves every cell that holds a connection,
\* and the cell of every other instance, as it was; the caller is then neither
\* holder nor waiter of the cell; if it held the permit, the cell is empty and
\* the permit is free or handed to the first waiter, which is about to run the
\* setup; an empty cell stays open; and a call that finds a connection in the
\* cell goes to its command with that connection.
C16_AbandonKeepsUsable ==
    [][\A t \in Tasks :
        /\ Abandons(t) =>
              /\ conn[call[t].client].value_set =>
                    conn'[call[t].client] = conn[call[t].client]
              /\ \A d \in Clients \ {call[t].client} : conn'[d] = conn[d]
              /\ NotIn(conn'[call[t].client], t)
              /\ pc[t] \in {"acquired", "init"} =>
                    PassedOn(conn[call[t].client], conn'[call[t].client])
              /\ \A c \in Clients : ~conn'[c].value_set => CellOpen(c)'
              /\ pc[t] # "command" => store' = store
        /\ (~Busy(t) /\ Busy(t)' /\ conn[call'[t].client].value_set) =>
              /\ pc'[t] = "command"
              /\ held'[t] = conn[call'[t].client].value.val
              /\ setups' = setups]_vars

\* C16 witness: a caller waited behind the first setup attempt; the caller
\* that ran it dropped its call; the waiter then ran the second attempt, which
\* set the cell, and is at its command.
C16_Witness ==
    \E t \in Tasks, u \in Tasks :
        /\ t # u
        /\ pc[t] = "idle" /\ call[t] = NoCall
        /\ calls = 2
        /\ pc[u] = "command" /\ saw[u] = 1 /\ own[u] = 2
        /\ conn[call[u].client].value_set
        /\ conn[call[u].client].value.val.id = 2
        /\ \A v \in Tasks : result[v] = NoResult

\* The settings that differ from s in the value of the password only
PasswordVariants(s) ==
    IF s.password.some
    THEN {[s EXCEPT !.password = Some(p)] : p \in Passwords}
    ELSE {s}

\* The single-line form and the two detailed forms of an error
Renderings(e) == <<Error_display(e), Error_debug(e), Error_debug_alternate(e)>>

\* The text holds the characters of the password, one after the other
Holds(text, pw) ==
    \E i \in 1..Len(text) :
        /\ i + Len(pw) - 1 <= Len(text)
        /\ Slice(text, i, i + Len(pw) - 1) = pw

\* A text of the rendering holds the password
Mentions(rendering, pw) ==
    \E i \in 1..Len(rendering) :
        /\ "text" \in DOMAIN rendering[i]
        /\ Holds(rendering[i].text, pw)

MentionsIn(e, pw) == \E i \in 1..3 : Mentions(Renderings(e)[i], pw)

\* What construction returns for the settings v is rendered as res is
RenderedAlike(res, other) ==
    /\ other.ok = res.ok
    /\ ~res.ok => Renderings(other.err) = Renderings(res.err)
    /\ res.ok =>
          RedisClient_debug(InstanceOf(other.val)) =
              RedisClient_debug(InstanceOf(res.val))

\* C17: settings that differ only in the value of the password have the same
\* Debug form, and construction either fails for all of them with errors whose
\* single-line and detailed forms are the same, or gives clients with the same
\* Debug form; and no form of the settings, of the client, of an error of
\* construction or of an error of a call holds the password.
C17_PasswordNeverRendered ==
    /\ \A v \in PasswordVariants(settings) :
          /\ RedisSettings_debug(v) = RedisSettings_debug(settings)
          /\ built.done => RenderedAlike(built.res, new(v))
    /\ settings.password.some =>
          /\ ~Mentions(RedisSettings_debug(settings), settings.password.val)
          /\ (built.done /\ ~built.res.ok) =>
                ~MentionsIn(built.res.err, settings.password.val)
          /\ (built.done /\ built.res.ok) =>
                ~Mentions(RedisClient_debug(instances[1]),
                          settings.password.val)
          /\ \A t \in Tasks :
                (pc[t] = "done" /\ ~result[t].ok) =>
                    ~MentionsIn(result[t].err, settings.password.val)

\* C17 witness: with a password in the settings, construction has failed
\* with an error that has a context entry and a source.
C17_Witness ==
    /\ settings.password.some
    /\ built.done /\ ~built.res.ok
    /\ Len(built.res.err.context) > 0
    /\ built.res.err.source.some
    /\ Len(Error_display(built.res.err)) > 5

\* The connection is of the variant that goes with the templates of inst
Matches(connection, inst) ==
    /\ connection.variant \in {"Single", "Cluster"}
    /\ connection.variant = "Single" <=> inst.client.some
    /\ connection.variant = "Cluster" <=> inst.cluster_client.some

\* C18: the unwrap of the cluster template in connect never panics, and a
\* connection in the cell of a client, or in the hands of a caller, is Single
\* exactly when the client has the single-node template and Cluster exactly
\* when it has the cluster template.
C18_VariantMatchesMode ==
    /\ \A t \in Tasks : pc[t] # "panicked"
    /\ \A c \in LiveClients :
          conn[c].value_set => Matches(conn[c].value.val, instances[c])
    /\ \A t \in Tasks :
          pc[t] = "command" => Matches(held[t], instances[call[t].client])

\* C18 witness: the cell of a client in cluster mode holds a Cluster
\* connection, which a caller holds for its command.
C18_Witness ==
    \E t \in Tasks :
        /\ pc[t] = "command"
        /\ held[t].variant = "Cluster"
        /\ instances[call[t].client].cluster_client.some
        /\ conn[call[t].client].value_set
        /\ conn[call[t].client].value.val = held[t]

\* Instance d is made in this step, as a clone
Cloned(d) == built.done /\ ~instances[d].live /\ instances'[d].live

\* The cell `made` is what a clone of the cell `of` gets: the same connection
\* in a set cell when `of` holds one, and else an empty cell of its own with
\* the permit free and nobody waiting
ClonedCell(made, of) ==
    IF of.value_set
    THEN made.value_set /\ made.value = of.value
    ELSE /\ ~made.value_set
         /\ made.permit = "free"
         /\ made.holder = 0
         /\ made.waiters = <<>>

\* C19: a clone gets the content of the cell at the time of the clone and
\* nothing else.  Cloned from a client whose cell holds a connection, it holds
\* the same connection and no setup is ever run on it; cloned from a client
\* whose cell is empty, also while a setup is in flight, it has an empty cell
\* of its own.  The cells are independent afterwards: a step of a call changes
\* the cell of the instance it was made on and no other, so that each
\* instance runs its own setup, at most one of which succeeds per instance.
C19_CloneCopiesContent ==
    [][/\ \A d \in Clients :
            Cloned(d) =>
                /\ \E c \in LiveClients :
                      /\ instances'[d] = instances[c]
                      /\ ClonedCell(conn'[d], conn[c])
                /\ \A c \in LiveClients : conn'[c] = conn[c]
                /\ setups' = setups
       /\ \A d \in Clients :
            (conn[d].value_set /\ setups[d] = 0) =>
                /\ setups'[d] = 0
                /\ conn'[d] = conn[d]
       /\ instances' = instances =>
            \A c \in Clients, d \in Clients :
                (conn'[c] # conn[c] /\ conn'[d] # conn[d]) => c = d
       /\ \A t \in Tasks, c \in Clients :
            (Busy(t) /\ conn'[c] # conn[c] /\ pc'[t] # pc[t]) =>
                call[t].client = c
       /\ \A c \in Clients : completed'[c] <= 1]_vars

\* C19 witness: the client and its clone, cloned while the cell was empty,
\* have each run a setup of their own and hold two different connections.
C19_Witness ==
    /\ instances[1].live /\ instances[2].live
    /\ conn[1].value_set /\ conn[2].value_set
    /\ conn[1].value.val.id # conn[2].value.val.id
    /\ setups[1] = 1 /\ setups[2] = 1
    /\ completed[1] = 1 /\ completed[2] = 1

\* C20: when every setup attempt and every command completes and woken
\* callers are polled, every call that was started returns or is dropped by
\* its caller: no caller stays in its call for ever, whether it waits for the
\* permit, holds it, runs the setup or runs its command, and whether or not
\* the caller that ran the setup before it failed or gave up.
C20_EveryCallReturns ==
    \A t \in Tasks : Busy(t) ~> ~Busy(t)

\* C20 witness: a caller that waited behind the first setup attempt, whose
\* caller gave up, has run the second attempt itself and its call has
\* returned.
C20_Witness ==
    \E t \in Tasks, u \in Tasks :
        /\ t # u
        /\ pc[t] = "done" /\ saw[t] = 1 /\ own[t] = 2
        /\ result[t] # NoResult
        /\ pc[u] = "idle" /\ call[u] = NoCall
        /\ calls = 2

=============================================================================
